---------------------------- MODULE Spec2Model ----------------------------
(***************************************************************************)
(* A model of the transport-triggered MOV virtual machine of               *)
(* src/src/main.rs: the word memory (Memory), the register file with its   *)
(* read/write triggers (Registers) and the fetch-decode-execute loop of    *)
(* main.                                                                   *)
(*                                                                         *)
(* Widths.  The program works on u8 bytes, u16 instruction halves, u32     *)
(* memory words and i64/u64/usize registers.  TLC's integers are 32 bits   *)
(* wide, so every width is scaled by the same factor: a byte has ByteBits  *)
(* bits, a half 2*ByteBits, a word 4*ByteBits and a register 8*ByteBits.   *)
(* All the ratios of the program (4 bytes per word, 2 halves per word, 2   *)
(* words per double word, a register as wide as a double word) are kept,   *)
(* and so is every wrap-around and every checked conversion.               *)
(*                                                                         *)
(* Panics.  A Rust panic ends the process.  Every operator that can panic  *)
(* returns a record with a field ok; ok = FALSE carries the state at the   *)
(* moment of the panic, and nothing runs after it.                         *)
(*                                                                         *)
(* Arithmetic overflow of +, - and * panics in a build with overflow       *)
(* checks and wraps in a build without them; the variable checks is the    *)
(* build's choice, fixed for a run.                                        *)
(***************************************************************************)
EXTENDS Integers, Sequences, FiniteSets, TLC

-----------------------------------------------------------------------------
(* Widths and ranges *)

\* bits of a u8 (scaled from 8)
ByteBits == 3

\* 256, the radix of Memory::store
Byte == 2 ^ ByteBits

\* bits of a u16 instruction half (scaled from 16)
HalfBits == 2 * ByteBits

\* 0x10000
Half == 2 ^ HalfBits

\* 0x8000, the immediate flag of the source field
IMM_FLAG == 2 ^ (HalfBits - 1)

\* bits of a u32 memory word (scaled from 32)
WordBits == 4 * ByteBits

\* 4294967296
Word == 2 ^ WordBits

\* bits of an i64, u64 and usize (scaled from 64)
RegBits == 8 * ByteBits

\* 2^64
Reg == 2 ^ RegBits

I64_MIN == -(2 ^ (RegBits - 1))

I64_MAX == 2 ^ (RegBits - 1) - 1

USIZE_MAX == Reg - 1

\* number of words of Memory.buffer (scaled from 1048576)
MEMORY_SIZE == 8

\* number of registers (scaled from 36, so that the register source field
\* of an instruction, one bit narrower than a half, can name an index past
\* the array; every register the source names, 0 .. 27, is there)
NREGS == 30

\* the program counter register
PC == 27

\* the "clear screen" code of cio_trig (scaled from 256: one above the
\* largest byte)
CLEAR == Byte

\* the code io_trig yields on a read of register 19
NEWLINE == 10

\* char::from_u32 accepts 0..=0x10FFFF except the surrogates
\* 0xD800..=0xDFFF (scaled by 2^10 so that the range lies inside a u32)
CHAR_MAX == 1087

SURR_LO == 54

SURR_HI == 55

Abs(x) == IF x < 0 THEN -x ELSE x

Min(a, b) == IF a < b THEN a ELSE b

InI64(x) == I64_MIN <= x /\ x <= I64_MAX

\* two's-complement wrap of an integer into the i64 range
WrapI64(x) == LET m == x % Reg IN IF m > I64_MAX THEN m - Reg ELSE m

\* a conversion that saturates: a negative value becomes 0
AsUsize_saturating(x) == IF x < 0 THEN 0 ELSE x

\* `x as usize` of an i64: the two's-complement reinterpretation
AsUsize(x) == x % Reg

-----------------------------------------------------------------------------
(* Memory *)

Addrs == 0 .. MEMORY_SIZE - 1

ZeroMemory == [a \in Addrs |-> 0]

\* self.buffer[address]: an index outside the array panics
load32(mem, address) ==
    IF address \in Addrs
    THEN [ok |-> TRUE, val |-> mem[address]]
    ELSE [ok |-> FALSE, val |-> 0]

\* load_opcode with the halves the wrong way round
load_opcode_swapped(mem, address) ==
    LET w == load32(mem, address)
    IN  [ok |-> w.ok, src |-> w.val % Half, dst |-> w.val \div Half]

\* (i32 >> 16, i32 & 0xFFFF)
load_opcode(mem, address) ==
    LET w == load32(mem, address)
    IN  [ok |-> w.ok, src |-> w.val \div Half, dst |-> w.val % Half]

\* address * 2 and address * 2 + 1 in usize: overflow panics with overflow
\* checks and wraps without
DoubleIndex(address, checks) ==
    LET hi == address * 2
        lo == address * 2 + 1
    IN  IF lo > USIZE_MAX /\ checks
        THEN [ok |-> FALSE, hi |-> 0, lo |-> 0]
        ELSE [ok |-> TRUE, hi |-> hi % Reg, lo |-> lo % Reg]

\* self.buffer[address * 2] as u64 * 4294967296 + self.buffer[address * 2 + 1]
load64(mem, address, checks) ==
    LET ix == DoubleIndex(address, checks)
    IN  IF ix.ok /\ ix.hi \in Addrs /\ ix.lo \in Addrs
        THEN [ok |-> TRUE, val |-> mem[ix.hi] * Word + mem[ix.lo]]
        ELSE [ok |-> FALSE, val |-> 0]

\* store64 with the low word first
store64_low_first(mem, address, value, checks) ==
    LET ix == DoubleIndex(address, checks)
    IN  IF ~ix.ok \/ ix.hi \notin Addrs \/ ix.lo \notin Addrs
        THEN [ok |-> FALSE, mem |-> mem]
        ELSE [ok |-> TRUE,
              mem |-> [mem EXCEPT ![ix.hi] = value % Word,
                                  ![ix.lo] = value \div Word]]

\* the panicking store: the first assignment is done when the second index
\* is the one out of range
store64(mem, address, value, checks) ==
    LET ix == DoubleIndex(address, checks)
    IN  IF ~ix.ok \/ ix.hi \notin Addrs
        THEN [ok |-> FALSE, mem |-> mem]
        ELSE IF ix.lo \notin Addrs
        THEN [ok |-> FALSE, mem |-> [mem EXCEPT ![ix.hi] = value \div Word]]
        ELSE [ok |-> TRUE,
              mem |-> [mem EXCEPT ![ix.hi] = value \div Word,
                                  ![ix.lo] = value % Word]]


\* the body of Memory::store's inner loop: four bytes, most significant
\* first, into one word (data is 0-indexed in the source, 1-indexed here)
Pack(data, off, n) ==
    LET RECURSIVE Go(_, _)
        Go(j, acc) == IF j = n THEN acc
                      ELSE Go(j + 1, acc * Byte + data[off + j + 1])
    IN  Go(0, 0)

\* Memory::store.  data_end = min(base + len / 4, MEMORY_SIZE) - 1 is a
\* usize subtraction: at 0 it panics with overflow checks and wraps to
\* usize::MAX without, and then the first iteration (i = base = 0) zeroes
\* the word, accumulates the bytes there are, multiplies once more and
\* panics on data[len].  The progress lines it prints are left out.
store(mem, data, base, checks) ==
    LET n == Min(base + Len(data) \div 4, MEMORY_SIZE)
        data_end == n - 1
    IN  IF n = 0
        THEN IF checks
             THEN [ok |-> FALSE, mem |-> mem]
             ELSE [ok |-> FALSE,
                   mem |-> [mem EXCEPT ![0] = Pack(data, 0, Len(data)) * Byte]]
        ELSE [ok |-> TRUE,
              mem |-> [a \in Addrs |->
                         IF base <= a /\ a < data_end
                         THEN Pack(data, (a - base) * 4, 4)
                         ELSE mem[a]]]

-----------------------------------------------------------------------------
(* The input and output capability owned by Memory (memory.io) *)

\* an item of the asynchronous reader: a byte, or a read error
ByteItem(b) == [err |-> FALSE, byte |-> b]

ErrItem == [err |-> TRUE, byte |-> 0]

\* an item written to the terminal: a character, or the clear-screen
\* escape sequence
CharOut(c) == [clear |-> FALSE, code |-> c]

ClearOut == [clear |-> TRUE, code |-> 0]

\* read_noblocking: one cin.next(); a 0 byte and an error are consumed and
\* reported as None, like an empty reader
read_noblocking(cin) ==
    IF cin = <<>>
    THEN [some |-> FALSE, val |-> 0, cin |-> cin]
    ELSE LET h == Head(cin)
         IN  IF h.err \/ h.byte = 0
             THEN [some |-> FALSE, val |-> 0, cin |-> Tail(cin)]
             ELSE [some |-> TRUE, val |-> h.byte, cin |-> Tail(cin)]

\* char::from_u32(x.try_into().unwrap()).unwrap() does not panic
IsChar(x) ==
    /\ 0 <= x /\ x < Word
    /\ x <= CHAR_MAX
    /\ ~(SURR_LO <= x /\ x <= SURR_HI)

-----------------------------------------------------------------------------
(* Registers: the trigger callbacks of init_triggers.  A callback gets the *)
(* discriminator trig (0: from get, 1: from set) and the machine st =      *)
(* [regs, mem, cin, cout, checks, ok]: the register buffer, the memory     *)
(* words, the reader and terminal of memory.io, and the build's overflow   *)
(* checks.                                                                 *)

Panic(st) == [st EXCEPT !.ok = FALSE]

\* the result of an i64 +, - or * whose exact value is x, stored in register r
Arith(st, r, x) ==
    IF InI64(x) THEN [st EXCEPT !.regs[r] = x]
    ELSE IF st.checks THEN Panic(st)
    ELSE [st EXCEPT !.regs[r] = WrapI64(x)]

add_trig(trig, st) == Arith(st, 2, st.regs[0] + st.regs[1])

sub_trig(trig, st) == Arith(st, 5, st.regs[3] - st.regs[4])

\* |a * b| computed on the halves of |a| and |b|, so that no intermediate
\* result leaves TLC's integers: whether the exact product fits an i64, and
\* the product modulo 2^64
MulFits(a, b) ==
    \/ a = 0 \/ b = 0
    \/ (a < 0) = (b < 0) /\ Abs(a) <= I64_MAX \div Abs(b)
    \/ (a < 0) # (b < 0) /\ Abs(a) <= (-I64_MIN) \div Abs(b)

MulWrap(a, b) ==
    LET ua == a % Reg
        ub == b % Reg
        al == ua % Word
        ah == ua \div Word
        bl == ub % Word
        bh == ub \div Word
    IN  WrapI64((al * bl + ((ah * bl + al * bh) % Word) * Word) % Reg)

mul_trig(trig, st) ==
    LET a == st.regs[6]
        b == st.regs[7]
    IN  IF MulFits(a, b) THEN [st EXCEPT !.regs[8] = a * b]
        ELSE IF st.checks THEN Panic(st)
        ELSE [st EXCEPT !.regs[8] = MulWrap(a, b)]

\* the i64 / and %: truncation toward zero, the remainder with the sign of
\* the dividend
TruncDiv(n, d) ==
    LET q == Abs(n) \div Abs(d)
    IN  IF (n < 0) = (d < 0) THEN q ELSE -q

TruncRem(n, d) == n - TruncDiv(n, d) * d

\* i64::MIN / -1 overflows, and / panics on overflow in every build
div_trig(trig, st) ==
    LET div0 == st.regs[9]
        div1 == st.regs[10]
    IN  IF div1 = 0
        THEN [st EXCEPT !.regs[11] = div0, !.regs[12] = 0]
        ELSE IF div0 = I64_MIN /\ div1 = -1
        THEN Panic(st)
        ELSE [st EXCEPT !.regs[11] = TruncDiv(div0, div1),
                        !.regs[12] = TruncRem(div0, div1)]

tlt_trig(trig, st) ==
    [st EXCEPT !.regs[15] = IF st.regs[13] < st.regs[14] THEN 1 ELSE 0]

\* cio_trig without the clear-screen code: 256 is printed as a character
cio_trig_no_clear(trig, st) ==
    IF trig = 1
    THEN IF IsChar(st.regs[16])
         THEN [st EXCEPT !.cout = Append(@, CharOut(st.regs[16]))]
         ELSE Panic(st)
    ELSE LET r == read_noblocking(st.cin)
         IN  [st EXCEPT !.regs[16] = IF r.some THEN r.val ELSE -1,
                        !.cin = r.cin]

cio_trig(trig, st) ==
    IF trig = 1
    THEN IF st.regs[16] = CLEAR
         THEN [st EXCEPT !.cout = Append(@, ClearOut)]
         ELSE IF IsChar(st.regs[16])
         THEN [st EXCEPT !.cout = Append(@, CharOut(st.regs[16]))]
         ELSE Panic(st)
    ELSE LET r == read_noblocking(st.cin)
         IN  [st EXCEPT !.regs[16] = IF r.some THEN r.val ELSE -1,
                        !.cin = r.cin]

io_trig(trig, st) ==
    IF trig = 1
    THEN IF IsChar(st.regs[18])
         THEN [st EXCEPT !.cout = Append(@, CharOut(st.regs[18]))]
         ELSE Panic(st)
    ELSE [st EXCEPT !.regs[19] = NEWLINE]

\* atz_trig with the result in the last operand's register
atz_trig_into_operand(trig, st) ==
    [st EXCEPT !.regs[22] = IF st.regs[20] = 0 THEN st.regs[21]
                            ELSE st.regs[22]]

atz_trig(trig, st) ==
    [st EXCEPT !.regs[23] = IF st.regs[20] = 0 THEN st.regs[21]
                            ELSE st.regs[22]]

\* mem_trig with casts in place of the checked conversions of the value: a
\* negative value is stored as its two's complement and read back
mem_trig_unchecked(trig, st) ==
    IF trig = 1
    THEN IF st.regs[26] < 0
         THEN Panic(st)
         ELSE LET r == store64(st.mem, st.regs[26], st.regs[24] % Reg, st.checks)
              IN  [st EXCEPT !.mem = r.mem, !.ok = r.ok]
    ELSE IF st.regs[26] < 0
         THEN Panic(st)
         ELSE LET r == load64(st.mem, st.regs[26], st.checks)
              IN  IF r.ok
                  THEN [st EXCEPT !.regs[24] = WrapI64(r.val)]
                  ELSE Panic(st)

\* buffer[26].try_into::<usize>() and buffer[24].try_into::<u64>() panic on
\* a negative value; the u64 read back panics in try_into::<i64>() above
\* i64::MAX
mem_trig(trig, st) ==
    IF trig = 1
    THEN IF st.regs[26] < 0 \/ st.regs[24] < 0
         THEN Panic(st)
         ELSE LET r == store64(st.mem, st.regs[26], st.regs[24], st.checks)
              IN  [st EXCEPT !.mem = r.mem, !.ok = r.ok]
    ELSE IF st.regs[26] < 0
         THEN Panic(st)
         ELSE LET r == load64(st.mem, st.regs[26], st.checks)
              IN  IF r.ok /\ r.val <= I64_MAX
                  THEN [st EXCEPT !.regs[24] = r.val]
                  ELSE Panic(st)

\* a call of a registered callback (a fn pointer in the source)
Call(callback, trig, st) ==
    CASE callback = "add_trig" -> add_trig(trig, st)
      [] callback = "sub_trig" -> sub_trig(trig, st)
      [] callback = "mul_trig" -> mul_trig(trig, st)
      [] callback = "div_trig" -> div_trig(trig, st)
      [] callback = "tlt_trig" -> tlt_trig(trig, st)
      [] callback = "cio_trig" -> cio_trig(trig, st)
      [] callback = "io_trig" -> io_trig(trig, st)
      [] callback = "atz_trig" -> atz_trig(trig, st)
      [] callback = "mem_trig" -> mem_trig(trig, st)

\* the registrations of init_triggers, in the order of the source:
\* <<index, k, callback>> is get_triggers_pair(index).k.push(callback), with
\* k = 0 the read-triggers and k = 1 the write-triggers
Registrations ==
    << <<0, 1, "add_trig">>, <<1, 1, "add_trig">>, <<2, 0, "add_trig">>,
       <<3, 1, "sub_trig">>, <<4, 1, "sub_trig">>, <<5, 0, "sub_trig">>,
       <<6, 1, "mul_trig">>, <<7, 1, "mul_trig">>, <<8, 0, "mul_trig">>,
       <<9, 1, "div_trig">>, <<10, 1, "div_trig">>,
       <<11, 0, "div_trig">>, <<12, 0, "div_trig">>,
       <<13, 1, "tlt_trig">>, <<14, 1, "tlt_trig">>, <<15, 0, "tlt_trig">>,
       <<16, 0, "cio_trig">>, <<16, 1, "cio_trig">>,
       <<18, 1, "io_trig">>, <<19, 0, "io_trig">>,
       <<20, 1, "atz_trig">>, <<21, 1, "atz_trig">>, <<22, 1, "atz_trig">>,
       <<23, 0, "atz_trig">>,
       <<24, 0, "mem_trig">>, <<24, 1, "mem_trig">>, <<26, 1, "mem_trig">> >>

\* the pair of lists of an index: entry(index).or_insert((Vec::new(), Vec::new()))
get_triggers_pair(triggers, index) ==
    IF index \in DOMAIN triggers THEN triggers[index] ELSE << <<>>, <<>> >>

\* the HashMap after init_triggers: each push appends to one list of a pair
init_triggers ==
    LET Push(triggers, reg) ==
            LET pair == get_triggers_pair(triggers, reg[1])
                new == IF reg[2] = 0
                       THEN <<Append(pair[1], reg[3]), pair[2]>>
                       ELSE <<pair[1], Append(pair[2], reg[3])>>
            IN  [x \in DOMAIN triggers \cup {reg[1]} |->
                   IF x = reg[1] THEN new ELSE triggers[x]]
        RECURSIVE Go(_, _)
        Go(k, triggers) ==
            IF k > Len(Registrations) THEN triggers
            ELSE Go(k + 1, Push(triggers, Registrations[k]))
    IN  Go(1, <<>>)

\* for callback in list.iter() { callback(trig, buf, memory) }: a panic
\* ends the iteration
RECURSIVE RunTriggers(_, _, _)
RunTriggers(list, trig, st) ==
    IF list = <<>> \/ ~st.ok THEN st
    ELSE RunTriggers(Tail(list), trig, Call(Head(list), trig, st))

\* set that ignores an index outside the array
set_ignores_bad_index(index, value, st) ==
    IF index \notin 0 .. NREGS - 1
    THEN st
    ELSE LET stored == [st EXCEPT !.regs[index] = value]
         IN  IF index \in DOMAIN init_triggers
             THEN RunTriggers(init_triggers[index][2], 1, stored)
             ELSE stored

\* set without the loop over the write-triggers
set_no_triggers(index, value, st) ==
    IF index \notin 0 .. NREGS - 1
    THEN Panic(st)
    ELSE [st EXCEPT !.regs[index] = value]

\* Registers::set: self.buffer[index] = value panics on an index outside the
\* array; then the write-triggers of index run in order
set(index, value, st) ==
    IF index \notin 0 .. NREGS - 1
    THEN Panic(st)
    ELSE LET stored == [st EXCEPT !.regs[index] = value]
         IN  IF index \in DOMAIN init_triggers
             THEN RunTriggers(init_triggers[index][2], 1, stored)
             ELSE stored

\* get without the loop over the read-triggers
get_no_triggers(index, st) ==
    IF index \notin 0 .. NREGS - 1
    THEN [st |-> Panic(st), val |-> 0]
    ELSE [st |-> st, val |-> st.regs[index]]

\* Registers::get: the read-triggers of index run in order, then
\* self.buffer[index] is read, which panics on an index outside the array
get(index, st) ==
    LET after == IF index \in DOMAIN init_triggers
                 THEN RunTriggers(init_triggers[index][1], 0, st)
                 ELSE st
    IN  IF ~after.ok THEN [st |-> after, val |-> 0]
        ELSE IF index \notin 0 .. NREGS - 1
        THEN [st |-> Panic(after), val |-> 0]
        ELSE [st |-> after, val |-> after.regs[index]]

-----------------------------------------------------------------------------
(* The state *)

VARIABLES
    regs,     \* Registers.buffer
    mem,      \* Memory.buffer
    cin,      \* the bytes (and read errors) waiting in the asynchronous reader
    cout,     \* what has been printed to the terminal by the triggers
    i,        \* the tick counter of main
    status,   \* "running", "halted" (the loop broke and reported) or "fault"
    executed, \* history: the calls of set the loop of main has made
    jumped,   \* history: one of them had the destination 27
    drv,      \* what drives the machine in this run, see the specifications
    last,     \* history: the last operation, its inputs and its result
    checks    \* the build: overflow checks on or off

vars ==
    <<regs, mem, cin, cout, i, status, executed, jumped, drv, last, checks>>

\* the machine handed to set and get, and its write-back
Machine ==
    [regs |-> regs, mem |-> mem, cin |-> cin, cout |-> cout,
     checks |-> checks, ok |-> TRUE]

Becomes(st) ==
    /\ regs' = st.regs
    /\ mem' = st.mem
    /\ cin' = st.cin
    /\ cout' = st.cout
    /\ status' = IF st.ok THEN status ELSE "fault"

\* Registers { buffer: [0; 36], .. } and Memory { buffer: box_array![0; MEMORY_SIZE], .. }
Constructed ==
    [regs |-> [r \in 0 .. NREGS - 1 |-> 0], mem |-> ZeroMemory,
     cin |-> <<>>, cout |-> <<>>, checks |-> FALSE, ok |-> TRUE]

NoOp ==
    [op |-> "none", prev |-> "none", index |-> 0, value |-> 0, ret |-> 0,
     addr |-> 0, word |-> 0, src |-> 0, dst |-> 0, data |-> <<>>, ok |-> TRUE]

\* bounds of the runs
MaxIn == 1

MaxOut == 2

\* the bytes typed at the terminal in the runs
InItems == {ByteItem(0), ByteItem(Byte - 1), ErrItem}

\* a byte (or a read error) arrives from the terminal's reader thread
Arrive ==
    /\ status = "running"
    /\ drv.input
    /\ Len(cin) < MaxIn
    /\ \E it \in InItems : cin' = Append(cin, it)
    /\ last' = [NoOp EXCEPT !.op = "arrive"]
    /\ UNCHANGED <<regs, mem, cout, i, status, executed, jumped, drv, checks>>

-----------------------------------------------------------------------------
(* main before the loop: the calls on the fresh registers, and the bytes   *)
(* of a program image                                                      *)

\* an instruction word: (src << 16) | dst, and an immediate source
Instr(src, dst) == src * Half + dst

Imm(v) == IMM_FLAG + v

\* the four bytes of a word, most significant first
WordBytes(w) ==
    <<w \div (Byte * Byte * Byte), (w \div (Byte * Byte)) % Byte,
      (w \div Byte) % Byte, w % Byte>>

RECURSIVE Image(_)
Image(words) ==
    IF words = <<>> THEN <<>> ELSE WordBytes(Head(words)) \o Image(Tail(words))

\* regs.set(20, 2); regs.set(21, 5); regs.set(22, 6);
\* assert_eq!(regs.get(23), 6)
Prelude[ch \in BOOLEAN] ==
    LET a == set(20, 2, [Constructed EXCEPT !.checks = ch])
        b == set(21, 5, a)
        c == set(22, 6, b)
        g == get(23, c)
    IN  IF g.val = 6 THEN g.st ELSE Panic(g.st)

-----------------------------------------------------------------------------
(* SpecApi: a caller of Registers::set and Registers::get on a constructed *)
(* machine, the way main calls them before the loop.  A run works on one   *)
(* group of registers (those wired to one callback) with values drawn from *)
(* the group's set.                                                        *)

Edge == {I64_MIN, -1, 0, 1, I64_MAX}

Group(name, idx, vals, input) ==
    [name |-> name, idx |-> idx, vals |-> vals, input |-> input,
     script |-> <<>>, args |-> <<>>, calls |-> 0]

Groups ==
    { Group("add", {0, 1, 2}, Edge \cup {3, 4}, FALSE),
      Group("sub", {3, 4, 5}, Edge \cup {3, 4}, FALSE),
      Group("mul", {6, 7, 8}, Edge \cup {3, Word, -Word}, FALSE),
      Group("div", {9, 10, 11, 12}, Edge \cup {-7, 2, 7}, FALSE),
      Group("tlt", {13, 14, 15}, Edge \cup {3}, FALSE),
      Group("cio", {16},
            {-1, 0, Byte - 1, CLEAR, SURR_LO, CHAR_MAX, CHAR_MAX + 1, Word}, TRUE),
      Group("io", {18, 19}, {-1, 0, NEWLINE, SURR_HI, CHAR_MAX, Word}, FALSE),
      Group("atz", {20, 21, 22, 23}, {-1, 0, 2, 5, 6}, FALSE),
      Group("mem", {24, 26},
            {-1, 0, 1, 2, MEMORY_SIZE \div 2, Word + 1, I64_MAX}, FALSE),
      Group("plain", {17, 25, PC, NREGS - 1, NREGS, USIZE_MAX}, {-1, 0, 1}, FALSE),
      Group("image", {24}, {1}, FALSE) }

\* the program image of the runs of the group "image", which call the
\* memory port the way the loop does, on the machine as the loop finds it:
\* the first word is an instruction with an immediate source
PortImage == <<Instr(Imm(3), 0), Instr(24, 18), Instr(0, 0)>>

\* the machine when the loop begins on that image
PortLoaded[ch \in BOOLEAN] ==
    LET p == Prelude[ch]
        r == store(p.mem, Image(PortImage), 0, ch)
    IN  [p EXCEPT !.mem = r.mem, !.ok = p.ok /\ r.ok]

\* a scripted run: the calls of script, in order.  The memory-port script
\* writes v at double word A and w at double word B, then points the port
\* back at A and reads.
PortScript(A, v, B, w) ==
    << <<"set", 26, A>>, <<"set", 24, v>>, <<"set", 26, B>>,
       <<"set", 24, w>>, <<"set", 26, A>>, <<"get", 24, 0>> >>

DoubleAddrs == {a \in Addrs : 2 * a + 1 \in Addrs}

PortVals == {0, 1, Word + 1, I64_MAX}

Scripts ==
    { [name |-> "port", idx |-> {}, vals |-> {}, input |-> FALSE,
       script |-> PortScript(A, v, B, w), args |-> <<A, v, B, w>>,
       calls |-> 0] :
         A \in DoubleAddrs, v \in PortVals, B \in DoubleAddrs, w \in PortVals }

InitApi ==
    /\ checks \in BOOLEAN
    /\ drv \in Groups \cup Scripts
    /\ regs = IF drv.name = "image" THEN PortLoaded[checks].regs
              ELSE Constructed.regs
    /\ mem = IF drv.name = "image" THEN PortLoaded[checks].mem
             ELSE Constructed.mem
    /\ cin = <<>>
    /\ cout = <<>>
    /\ i = 0
    /\ executed = 0
    /\ jumped = FALSE
    /\ status = "running"
    /\ last = NoOp

ApiSet ==
    /\ status = "running"
    /\ Len(cout) < MaxOut
    /\ \E index \in drv.idx, value \in drv.vals :
          /\ Becomes(set(index, value, Machine))
          /\ last' = [NoOp EXCEPT !.op = "set", !.index = index, !.value = value,
                                  !.ok = set(index, value, Machine).ok]
    /\ UNCHANGED <<i, executed, jumped, drv, checks>>

ApiGet ==
    /\ status = "running"
    /\ \E index \in drv.idx :
          LET r == get(index, Machine)
          IN  /\ Becomes(r.st)
              /\ last' = [NoOp EXCEPT !.op = "get", !.index = index,
                                      !.ret = r.val, !.ok = r.st.ok]
    /\ UNCHANGED <<i, executed, jumped, drv, checks>>

\* the next call of a scripted run
ApiScript ==
    /\ status = "running"
    /\ drv.script # <<>>
    /\ LET call == Head(drv.script)
           r == get(call[2], Machine)
           w == set(call[2], call[3], Machine)
       IN  IF call[1] = "get"
           THEN /\ Becomes(r.st)
                /\ last' = [NoOp EXCEPT !.op = "get", !.index = call[2],
                                        !.ret = r.val, !.ok = r.st.ok]
           ELSE /\ Becomes(w)
                /\ last' = [NoOp EXCEPT !.op = "set", !.index = call[2],
                                        !.value = call[3], !.ok = w.ok]
    /\ drv' = [drv EXCEPT !.script = Tail(@)]
    /\ UNCHANGED <<i, executed, jumped, checks>>

NextApi == ApiSet \/ ApiGet \/ ApiScript \/ Arrive

SpecApi == InitApi /\ [][NextApi]_vars

-----------------------------------------------------------------------------
(* SpecMem: a caller of the methods of Memory on a zeroed memory, calls    *)
(* calls in a run.                                                         *)

\* bound: the calls of a run of SpecMem
MaxCalls == 2

\* the bytes handed to Memory::store: the prefixes of one pattern, whose
\* whole words are pairwise different and differ from a zeroed word
Pattern == <<1, 2, 3, 4, 5, 6, 7, 0, 7, 7, 7, 7, 0, 0, 0, 1>>

Datas == {SubSeq(Pattern, 1, n) : n \in {0, 3, 4, 7, 8, 9, 12, 16}}

Bases == {0, 1, MEMORY_SIZE - 1, MEMORY_SIZE}

\* usize addresses: double words in range, the last one, the first ones out
\* of range, and the first whose doubling leaves a usize
MemAddrs ==
    {0, 1, (MEMORY_SIZE - 2) \div 2, (MEMORY_SIZE - 1) \div 2,
     MEMORY_SIZE \div 2, MEMORY_SIZE - 1, MEMORY_SIZE, Reg \div 2}

\* u64 values
U64Vals == {0, 1, Word - 1, Word, Word + 1, I64_MAX, I64_MAX + 1, USIZE_MAX}

InitMem ==
    /\ checks \in BOOLEAN
    /\ drv = [Group("memory", {}, {}, FALSE) EXCEPT !.calls = MaxCalls]
    /\ regs = Constructed.regs
    /\ mem = Constructed.mem
    /\ cin = <<>>
    /\ cout = <<>>
    /\ i = 0
    /\ executed = 0
    /\ jumped = FALSE
    /\ status = "running"
    /\ last = NoOp

\* what every call of SpecMem does besides its own effect
Called ==
    /\ status = "running"
    /\ drv.calls > 0
    /\ drv' = [drv EXCEPT !.calls = @ - 1]
    /\ UNCHANGED <<regs, cin, cout, i, executed, jumped, checks>>

MemStore ==
    /\ Called
    /\ \E data \in Datas, base \in Bases :
          LET r == store(mem, data, base, checks)
          IN  /\ mem' = r.mem
              /\ status' = IF r.ok THEN status ELSE "fault"
              /\ last' = [NoOp EXCEPT !.op = "store", !.prev = last.op,
                                      !.data = data, !.addr = base, !.ok = r.ok]

MemStore64 ==
    /\ Called
    /\ \E address \in MemAddrs, value \in U64Vals :
          LET r == store64(mem, address, value, checks)
          IN  /\ mem' = r.mem
              /\ status' = IF r.ok THEN status ELSE "fault"
              /\ last' = [NoOp EXCEPT !.op = "store64", !.prev = last.op,
                                      !.addr = address, !.value = value,
                                      !.ok = r.ok]

MemLoad64 ==
    /\ Called
    /\ \E address \in MemAddrs :
          LET r == load64(mem, address, checks)
          IN  /\ mem' = mem
              /\ status' = IF r.ok THEN status ELSE "fault"
              /\ last' = [NoOp EXCEPT !.op = "load64", !.prev = last.op,
                                      !.addr = address, !.ret = r.val,
                                      !.ok = r.ok]

MemLoadOpcode ==
    /\ Called
    /\ \E address \in MemAddrs :
          LET r == load_opcode(mem, address)
          IN  /\ mem' = mem
              /\ status' = IF r.ok THEN status ELSE "fault"
              /\ last' = [NoOp EXCEPT !.op = "load_opcode", !.prev = last.op,
                                      !.addr = address, !.src = r.src,
                                      !.dst = r.dst, !.ok = r.ok]

NextMem == MemStore \/ MemStore64 \/ MemLoad64 \/ MemLoadOpcode

SpecMem == InitMem /\ [][NextMem]_vars

-----------------------------------------------------------------------------
(* Spec: main.  The registers and the memory are constructed, the triggers *)
(* registered, registers 20, 21, 22 set and register 23 asserted, a        *)
(* program image stored at word 0 (and its first words printed, which      *)
(* changes nothing), and the loop runs.                                    *)

\* bounds: the words of a program image, and the ticks of a run
MaxProg == 3

MaxTicks == 10

\* the instructions the program images are made of
InstrSet ==
    { Instr(0, 0),                  \* a zeroed word: register 0 to register 0
      Instr(Imm(3), 0),             \* 3 to the first addend
      Instr(Imm(16), 1),            \* 16 to the second addend
      Instr(2, PC),                 \* jump to the sum
      Instr(Imm(0), PC),            \* jump to word 0
      Instr(Imm(IMM_FLAG - 1), PC), \* jump past the memory
      Instr(Imm(24), 4),            \* 24 to the subtrahend: register 5 is -24
      Instr(5, PC),                 \* jump to the difference
      Instr(PC, 24),                \* the counter to the memory port
      Instr(24, 18),                \* the memory port to the second output
      Instr(16, 16),                \* console input to console output
      Instr(Imm(1), NREGS),         \* a destination past the registers
      Instr(NREGS, 0) }             \* a source past the registers

\* the program images: every sequence of at most MaxProg instructions
Programs == UNION {[1 .. n -> InstrSet] : n \in 0 .. MaxProg}

Init ==
    /\ checks \in BOOLEAN
    /\ drv = Group("main", {}, {}, TRUE)
    /\ \E program \in Programs :
          LET p == Prelude[checks]
              r == store(p.mem, Image(program), 0, checks)
          IN  /\ regs = p.regs
              /\ mem = r.mem
              /\ cin = p.cin
              /\ cout = p.cout
              /\ status = IF p.ok /\ r.ok THEN "running" ELSE "fault"
    /\ i = 0
    /\ executed = 0
    /\ jumped = FALSE
    /\ last = NoOp

\* the break one word late
Halts_late(addr) == addr > MEMORY_SIZE

\* if addr >= MEMORY_SIZE { break i; }
Halts(addr) == addr >= MEMORY_SIZE

\* the source register read after the advance of the counter
Operand_after_advance(src, st) ==
    IF src \div IMM_FLAG # 0
    THEN [st |-> st, val |-> src % IMM_FLAG]
    ELSE get(src, [st EXCEPT !.regs[PC] = AsUsize(@) + 1])

\* the register named by the low 15 bits read even when the high bit is set
Operand_always_reads(src, st) ==
    IF src \div IMM_FLAG # 0
    THEN [st |-> get(src % IMM_FLAG, st).st, val |-> src % IMM_FLAG]
    ELSE get(src, st)

\* the source operand: the low 15 bits of src with the high bit set, else
\* regs.get(src)
Operand(src, st) ==
    IF src \div IMM_FLAG # 0
    THEN [st |-> st, val |-> src % IMM_FLAG]
    ELSE get(src, st)

\* the destination write without the advance
Execute_no_advance(addr, dst, val, st) == set(dst, val, st)

\* the destination write before the advance
Execute_write_first(addr, dst, val, st) ==
    LET written == set(dst, val, st)
    IN  IF written.ok THEN [written EXCEPT !.regs[PC] = addr + 1] ELSE written

\* regs.buffer[27] = addr + 1; regs.set(dst, val)
Execute(addr, dst, val, st) ==
    set(dst, val, [st EXCEPT !.regs[PC] = addr + 1])

\* one iteration of the loop that does not break
Tick ==
    /\ status = "running"
    /\ i < MaxTicks
    /\ LET addr == AsUsize(regs[PC])
           opcode == load_opcode(mem, addr)
           operand == Operand(opcode.src, Machine)
           done == Execute(addr, opcode.dst, operand.val, operand.st)
       IN  /\ ~Halts(addr)
           /\ IF ~opcode.ok
              THEN /\ status' = "fault"
                   /\ UNCHANGED <<regs, mem, cin, cout, i, executed, jumped>>
              ELSE IF ~operand.st.ok
              THEN /\ Becomes(operand.st)
                   /\ UNCHANGED <<i, executed, jumped>>
              ELSE /\ Becomes(done)
                   /\ executed' = executed + 1
                   /\ jumped' = (jumped \/ opcode.dst = PC)
                   /\ i' = IF done.ok THEN i + 1 ELSE i
           /\ last' = [NoOp EXCEPT !.op = "tick", !.addr = addr,
                                   !.word = IF opcode.ok THEN mem[addr] ELSE 0,
                                   !.src = opcode.src, !.dst = opcode.dst,
                                   !.value = operand.val,
                                   !.ok = opcode.ok /\ operand.st.ok /\ done.ok]
    /\ UNCHANGED <<drv, checks>>

\* the iteration that breaks: tick and addr are printed
Halt ==
    /\ status = "running"
    /\ Halts(AsUsize(regs[PC]))
    /\ status' = "halted"
    /\ last' = [NoOp EXCEPT !.op = "halt", !.ret = i, !.value = regs[PC]]
    /\ UNCHANGED <<regs, mem, cin, cout, i, executed, jumped, drv, checks>>

Next == Tick \/ Halt \/ Arrive

Spec == Init /\ [][Next]_vars

\* the loop of main is the only thread of the interpreter and runs without
\* waiting: an iteration that can be taken is taken
SpecFair == Spec /\ WF_vars(Tick) /\ WF_vars(Halt)

-----------------------------------------------------------------------------
(* Claims about the loop of main, checked under Spec *)

\* C1: after every tick that returns, the counter is the operand when the
\* destination is register 27 (the destination write is done after the
\* advance and overrides it), and addr + 1 when it is any other register.
C1_AdvanceThenWrite ==
    (last.op = "tick" /\ last.ok)
        => regs[PC] = IF last.dst = PC THEN last.value ELSE last.addr + 1

\* C1 witness: a taken jump, to another word than the next one
C1_Witness ==
    /\ last.op = "tick" /\ last.ok
    /\ last.dst = PC
    /\ last.value # last.addr + 1
    /\ regs[PC] = last.value

\* C2: an iteration that finds the counter >= capacity breaks the loop
\* there and then, with nothing fetched and nothing written; an iteration
\* fetches only from an address below the capacity; and the tick count
\* reported at the break is the number of destination writes made.
C2_HaltAndTickCount ==
    [][/\ (status = "running" /\ regs[PC] >= MEMORY_SIZE /\ last'.op # "arrive")
             => /\ status' = "halted"
                /\ regs' = regs /\ mem' = mem /\ cout' = cout /\ cin' = cin
       /\ last'.op = "tick"
             => 0 <= regs[PC] /\ regs[PC] < MEMORY_SIZE /\ last'.addr = regs[PC]
       /\ status' = "halted"
             => last'.ret = executed /\ executed' = executed]_vars

\* C2 witness: a program driven past the memory after two instructions, and
\* the report of two ticks
C2_Witness ==
    /\ status = "halted"
    /\ regs[PC] >= MEMORY_SIZE
    /\ last.ret = 2 /\ executed = 2

\* C8: the word fetched at the counter decodes to src = w div 2^16 and
\* dst = w mod 2^16; with the high bit of src set the operand is the
\* immediate src mod 2^15, and else it is what get(src) returns.
C8_Decode ==
    [][(last'.op = "tick")
          => LET w == mem[regs[PC]]
                 src == w \div (2 ^ HalfBits)
                 dst == w % (2 ^ HalfBits)
             IN  /\ last'.src = src
                 /\ last'.dst = dst
                 /\ src >= 2 ^ (HalfBits - 1)
                       => /\ last'.value = src % (2 ^ (HalfBits - 1))
                          /\ last'.value \in 0 .. 2 ^ (HalfBits - 1) - 1
                          /\ executed' = executed + 1
                 /\ src < 2 ^ (HalfBits - 1)
                       => LET r == get(src, Machine)
                          IN  IF r.st.ok
                              THEN last'.value = r.val /\ executed' = executed + 1
                              ELSE status' = "fault" /\ executed' = executed]_vars

\* C8 witness: the word (0x8003 << 16) | 0 was decoded to the immediate 3
\* and destination 0, and 3 was written there
C8_Witness ==
    /\ last.op = "tick" /\ last.ok
    /\ last.word = (2 ^ (HalfBits - 1) + 3) * 2 ^ HalfBits
    /\ last.value = 3 /\ last.dst = 0
    /\ regs[0] = 3

-----------------------------------------------------------------------------
(* Claims about Registers, checked under SpecApi *)

\* C3 (as claimed): after set(26,A); set(24,v); set(26,B); set(24,w);
\* set(26,A) with A # B in range and v, w in [0, 2^63), get(24) returns v:
\* writing the address register alone leaves every memory word as it was.
C3_PortReadsBackFirstValue ==
    (/\ drv.name = "port"
     /\ drv.script = <<>>
     /\ drv.args[1] # drv.args[3])
        => (status = "running" /\ last.op = "get" /\ last.ret = drv.args[2])

\* C5 (as claimed): for all a and b, once set(0, a) and then set(1, b) have
\* returned, register 2 holds a + b.
C5_AddForAllOperands ==
    [][(/\ last.op = "set" /\ last.index = 0
        /\ last'.op = "set" /\ last'.index = 1 /\ last'.ok)
          => regs'[2] = last.value + last'.value]_vars

\* C5 (what the code does): set(0, a) followed by set(1, b) leaves a + b in
\* register 2 with no read of register 2 whenever a + b is an i64, and a
\* get(2) then returns it; when a + b is not an i64, set(1, b) panics in a
\* build with overflow checks and leaves the sum wrapped to 64 bits in one
\* without.
C5_AddWriteTriggered ==
    [][(/\ last.op = "set" /\ last.index = 0
        /\ last'.op = "set" /\ last'.index = 1)
          => LET sum == last.value + last'.value
             IN  IF InI64(sum)
                 THEN /\ last'.ok
                      /\ regs'[2] = sum
                      /\ get(2, Machine)'.val = sum
                 ELSE IF checks THEN ~last'.ok
                 ELSE last'.ok /\ regs'[2] = WrapI64(sum)]_vars

\* C5 (the in-range case is reached): 3 was written to register 0, then 4 to
\* register 1, and register 2 holds 7 with no read done
C5_Witness ==
    /\ drv.name = "add"
    /\ last.op = "set" /\ last.index = 1 /\ last.value = 4 /\ last.ok
    /\ regs[0] = 3
    /\ regs[2] = 7

\* C6 (as claimed): once the dividend (register 9) and the divisor (register
\* 10) are written, no write of either has faulted, and with d # 0 the
\* quotient and remainder satisfy q * d + r = n with |r| < |d| and r = 0 or
\* the sign of n, and with d = 0 they are n and 0.
C6_DivideNeverFaults ==
    (drv.name = "div" /\ last.op = "set" /\ last.index \in {9, 10})
        => /\ last.ok
           /\ LET n == regs[9]
                  d == regs[10]
                  q == regs[11]
                  r == regs[12]
              IN  IF d = 0 THEN q = n /\ r = 0
                  ELSE /\ Abs(r) < Abs(d)
                       /\ r = 0 \/ (r < 0) = (n < 0)
                       /\ q * d = n - r

\* C7: a get(23) returns register 21 when register 20 is 0 and register 22
\* otherwise, with the operands as they are at the read, whatever register
\* 23 held before.
C7_SelectOnRead ==
    [][(last'.op = "get" /\ last'.index = 23)
          => /\ last'.ok
             /\ last'.ret = IF regs[20] = 0 THEN regs[21] ELSE regs[22]]_vars

\* C7 witness: registers 20, 21, 22 = 2, 5, 6 and the read returned 6
C7_Witness ==
    /\ last.op = "get" /\ last.index = 23 /\ last.ret = 6
    /\ regs[20] = 2 /\ regs[21] = 5 /\ regs[22] = 6

\* C10 (as claimed): a get(16) polls once; with a byte b waiting, whatever
\* b in 0 .. 255, it takes the byte and returns b; with none it returns -1,
\* and it returns -1 in no other case.
C10_InputReturnsEveryByte ==
    [][(last'.op = "get" /\ last'.index = 16)
          => IF cin # <<>> /\ ~Head(cin).err
             THEN last'.ret = Head(cin).byte /\ cin' = Tail(cin)
             ELSE last'.ret = -1]_vars


-----------------------------------------------------------------------------
(* Claims about Memory, checked under SpecMem *)

\* C4 (as claimed): a store(bytes, base) that returns has written, for every
\* k with 0 <= k < floor(len / 4) and base + k < capacity, the four bytes
\* 4k .. 4k+3 big-endian into word base + k, and has left every other word
\* as it was.
C4_StoreWritesEveryWholeWord ==
    [][(last'.op = "store" /\ last'.ok)
          => LET bytes == last'.data
                 base == last'.addr
             IN  \A a \in Addrs :
                    mem'[a] =
                      IF a >= base /\ a - base < Len(bytes) \div 4
                      THEN LET k == a - base
                           IN  bytes[4 * k + 1] * Byte * Byte * Byte
                               + bytes[4 * k + 2] * Byte * Byte
                               + bytes[4 * k + 3] * Byte
                               + bytes[4 * k + 4]
                      ELSE mem[a]]_vars

\* C9: with 2 * addr + 1 inside the memory, a store64(addr, v) followed by a
\* load64(addr) returns v, for every u64 v.
C9_DoubleWordRoundTrip ==
    [][(/\ last.op = "store64"
        /\ 2 * last.addr + 1 < MEMORY_SIZE
        /\ last'.op = "load64"
        /\ last'.addr = last.addr)
          => last.ok /\ last'.ok /\ last'.ret = last.value]_vars

\* C9 witness: the largest u64 was stored at the last double word and read
\* back
C9_Witness ==
    /\ last.op = "load64" /\ last.prev = "store64" /\ last.ok
    /\ last.addr = (MEMORY_SIZE - 2) \div 2
    /\ last.ret = USIZE_MAX

-----------------------------------------------------------------------------
(* Claims about the console, checked under SpecApi *)

\* C11: a write of a code c to register 16 has one of three outcomes: the
\* clear-screen directive and no character when c is the clear code (256);
\* exactly the character c appended to the output when c is another Unicode
\* scalar value; a fault with the output unchanged for any other c
\* (negative, above the last scalar value, or a surrogate).
C11_ConsoleWrite ==
    [][(last'.op = "set" /\ last'.index = 16) =>
          LET c == last'.value
          IN  IF c = CLEAR
              THEN last'.ok /\ cout' = Append(cout, ClearOut)
              ELSE IF 0 <= c /\ c <= CHAR_MAX /\ (c < SURR_LO \/ c > SURR_HI)
              THEN last'.ok /\ cout' = Append(cout, CharOut(c))
              ELSE ~last'.ok /\ status' = "fault" /\ cout' = cout]_vars

\* a character was written, then the clear code
C11_Witness ==
    /\ last.op = "set" /\ last.index = 16 /\ last.value = CLEAR /\ last.ok
    /\ cout = <<CharOut(CHAR_MAX), ClearOut>>

-----------------------------------------------------------------------------
(* Claims about the callbacks and the register they are called for,        *)
(* checked under SpecApi                                                   *)

\* the registers with a read-trigger, each written by its own read-trigger
ResultRegs == {2, 5, 8, 11, 12, 15, 16, 19, 23, 24}

\* C12, as stated: no callback changes the register the current set or get
\* is performed on: after set(i, v) register i holds v, and a get(i) leaves
\* register i as it was before the get.
C12_CallbacksSpareOwnRegister ==
    [][/\ (last'.op = "set" /\ last'.index \in 0 .. NREGS - 1)
             => regs'[last'.index] = last'.value
       /\ (last'.op = "get" /\ last'.index \in 0 .. NREGS - 1)
             => regs'[last'.index] = regs[last'.index]]_vars

\* C12, amended: the write-triggers of set(i, v) leave register i equal to
\* v; a get(i) that returns yields register i as its read-triggers left it,
\* and only a get of a register with a read-trigger (a result register,
\* which its read-trigger overwrites) changes any register.
C12_SetSparesOwnRegister ==
    [][/\ (last'.op = "set" /\ last'.index \in 0 .. NREGS - 1)
             => regs'[last'.index] = last'.value
       /\ (last'.op = "get" /\ last'.ok)
             => /\ last'.ret = regs'[last'.index]
                /\ last'.index \notin ResultRegs => regs' = regs]_vars

\* set(22, 6) has run the select trigger with a nonzero selector: register
\* 23 was written, register 22 holds the value set
C12_Witness ==
    /\ last.op = "set" /\ last.index = 22 /\ last.value = 6 /\ last.ok
    /\ regs[20] = 2 /\ regs[21] = 0
    /\ regs[22] = 6 /\ regs[23] = 6

\* C13: a get of a read-triggered result register returns the result
\* computed from the operands as they are, whatever was set into the result
\* register before: get(2) the sum of registers 0 and 1, get(5) the
\* difference of registers 3 and 4, get(8) the product of registers 6 and
\* 7, get(15) 1 if register 13 is less than register 14 and 0 otherwise,
\* get(19) the code 10.
C13_ReadComputesResult ==
    (last.op = "get" /\ last.index \in {2, 5, 8, 15, 19})
       => /\ last.ok
          /\ last.index = 2 => last.ret = regs[0] + regs[1]
          /\ last.index = 5 => last.ret = regs[3] - regs[4]
          /\ last.index = 8 => /\ MulFits(regs[6], regs[7])
                               /\ last.ret = regs[6] * regs[7]
          /\ last.index = 15 => last.ret = IF regs[13] < regs[14] THEN 1 ELSE 0
          /\ last.index = 19 => last.ret = NEWLINE

-----------------------------------------------------------------------------
(* Claims about the operands of the loop of main, checked under Spec *)

\* C14: a tick whose source has the high bit set reads no register: no
\* read-trigger fires, no input byte is consumed, no memory word is loaded
\* into a register, whatever the low bits are; the state after the tick is
\* the state before it with the counter advanced and the destination
\* written (with the effects of the destination's write-triggers).
C14_ImmediateReadsNothing ==
    [][(last'.op = "tick" /\ last'.src >= IMM_FLAG) =>
          LET advanced == [Machine EXCEPT !.regs[PC] = last'.addr + 1]
              written == set(last'.dst, last'.src - IMM_FLAG, advanced)
          IN  /\ cin' = cin
              /\ regs' = written.regs
              /\ mem' = written.mem
              /\ cout' = written.cout
              /\ last'.ok = written.ok
              /\ last'.dst \in 0 .. NREGS - 1 =>
                    \A r \in {16, 24} \ {last'.dst} : regs'[r] = regs[r]]_vars

\* the immediate 16 was moved while a byte was waiting: the byte still
\* waits and register 16 is untouched
C14_Witness ==
    /\ last.op = "tick" /\ last.ok
    /\ last.src = IMM_FLAG + 16 /\ last.dst = 1
    /\ regs[1] = 16 /\ regs[16] = 0
    /\ cin = <<ByteItem(Byte - 1)>>

\* C15: the source operand is resolved before the counter is advanced: a
\* tick at address A whose source is register 27 takes the value A, not
\* A + 1, and moves it into its destination.
C15_CounterReadBeforeAdvance ==
    (last.op = "tick" /\ last.src = PC)
       => /\ last.value = last.addr
          /\ (last.ok /\ last.dst # PC) => regs[last.dst] = last.addr
          /\ (last.ok /\ last.dst = PC) => regs[PC] = last.addr

\* the instruction at word 1 moved the counter into register 24
C15_Witness ==
    /\ last.op = "tick" /\ last.ok
    /\ last.src = PC /\ last.dst = 24 /\ last.addr = 1
    /\ regs[24] = 1 /\ regs[PC] = 2

-----------------------------------------------------------------------------
(* Claims about the memory port, checked under SpecApi *)

\* C16: an access through the memory port (a set of register 24 or 26, a
\* get of register 24) with the address register holding a faults if and
\* only if a < 0 or 2 * a + 1 is not below the capacity of the memory, and a
\* faulting access changes no memory word.
C16_PortFaultsOnAddressOnly ==
    [][(/\ last'.op \in {"set", "get"}
        /\ last'.index \in {24, 26}
        /\ ~(last'.op = "get" /\ last'.index = 26)) =>
          LET a == regs'[26]
          IN  /\ ~last'.ok <=> (a < 0 \/ 2 * a + 1 >= MEMORY_SIZE)
              /\ ~last'.ok => mem' = mem]_vars

-----------------------------------------------------------------------------
(* Claims about the end of the loop of main, checked under Spec *)

\* C17: a counter outside [0, capacity) at the top of an iteration, negative
\* or not below the capacity, ends the loop cleanly: no instruction is
\* fetched, nothing is written, and the final counter reported is that
\* value; and the loop ends without a fault in no other way.
C17_OutOfRangeCounterHalts ==
    [][/\ (/\ status = "running"
           /\ (regs[PC] < 0 \/ regs[PC] >= MEMORY_SIZE)
           /\ last'.op # "arrive")
             => /\ status' = "halted"
                /\ last'.op = "halt" /\ last'.value = regs[PC]
                /\ executed' = executed /\ i' = i
                /\ regs' = regs /\ mem' = mem /\ cout' = cout /\ cin' = cin
       /\ (status' = "halted" /\ status # "halted")
             => /\ status = "running"
                /\ (regs[PC] < 0 \/ regs[PC] >= MEMORY_SIZE)]_vars

\* the loop ended on a negative counter, after two ticks
C17_Witness ==
    /\ status = "halted"
    /\ last.op = "halt" /\ last.value = regs[PC] /\ last.ret = 2
    /\ regs[PC] = -24

\* C18, checked under SpecFair: as long as no executed instruction had the
\* destination 27 and none faulted, the counter equals the number of ticks
\* made, so that capacity - p ticks remain from a counter p; and such a run
\* reaches the end: the loop halts with the counter equal to the capacity,
\* having reported a tick for every word of the memory.
C18_RunsToTheEnd ==
    /\ []((~jumped /\ status # "fault") => (regs[PC] = i /\ i <= MEMORY_SIZE))
    /\ <>(\/ status = "fault"
          \/ jumped
          \/ /\ status = "halted"
             /\ last.op = "halt" /\ last.ret = MEMORY_SIZE
             /\ i = MEMORY_SIZE /\ regs[PC] = MEMORY_SIZE)

\* the all-zero memory has run to the end: every word moved register 0 to
\* register 0
C18_Witness ==
    /\ status = "halted" /\ ~jumped
    /\ mem = ZeroMemory
    /\ last.op = "halt" /\ last.ret = MEMORY_SIZE
    /\ executed = MEMORY_SIZE /\ regs[PC] = MEMORY_SIZE

-----------------------------------------------------------------------------
(* Claims about the register indices of an instruction, checked under Spec *)

\* C19: an instruction whose register source or whose destination is not an
\* index of the register array faults in its tick: the loop neither halts
\* nor goes on.  With a bad source nothing has changed at the fault, the
\* counter included; with a bad destination the counter has been advanced
\* and the faulting write has changed no register.
C19_BadRegisterIndexFaults ==
    [][(last'.op = "tick") =>
          /\ (last'.src < IMM_FLAG /\ last'.src >= NREGS)
                => /\ status' = "fault" /\ ~last'.ok
                   /\ regs' = regs /\ mem' = mem /\ cin' = cin /\ cout' = cout
                   /\ i' = i /\ executed' = executed
          /\ (last'.src >= IMM_FLAG /\ last'.dst >= NREGS)
                => /\ status' = "fault" /\ ~last'.ok
                   /\ regs' = [regs EXCEPT ![PC] = last'.addr + 1]
                   /\ mem' = mem /\ cin' = cin /\ cout' = cout
                   /\ i' = i]_vars

\* the instruction at word 1 named a source past the registers: the run
\* has faulted with the counter still at word 1
C19_Witness ==
    /\ status = "fault"
    /\ last.op = "tick" /\ ~last.ok
    /\ last.src = NREGS /\ last.addr = 1
    /\ regs[PC] = 1 /\ i = 1 /\ executed = 1

-----------------------------------------------------------------------------
(* Claims about the values of the memory port, checked under SpecApi *)

\* C20: the memory port carries the values of [0, 2^63) only.  A write of a
\* negative value to register 24 faults and stores nothing, and so does a
\* write of register 26 on the registers it leaves; a read of register 24
\* faults when the high word of the addressed double word has its top bit
\* set; and a write of any other value at an address in range stores it,
\* the read that follows returning the value written.
C20_PortCarriesNonNegativeValues ==
    [][/\ (last'.op = "set" /\ last'.index = 24 /\ last'.value < 0)
             => /\ ~last'.ok /\ mem' = mem
                /\ \A a \in drv.vals :
                      LET left == [regs |-> regs', mem |-> mem', cin |-> cin',
                                   cout |-> cout', checks |-> checks, ok |-> TRUE]
                          w == set(26, a, left)
                      IN  ~w.ok /\ w.mem = mem
       /\ (/\ last'.op = "get" /\ last'.index = 24
           /\ regs[26] \in DoubleAddrs
           /\ 2 * mem[2 * regs[26]] >= Word)
             => ~last'.ok /\ status' = "fault" /\ regs' = regs /\ mem' = mem
       /\ (/\ last'.op = "set" /\ last'.index = 24 /\ last'.value >= 0
           /\ regs[26] \in DoubleAddrs)
             => /\ last'.ok
                /\ mem'[2 * regs[26]] * Word + mem'[2 * regs[26] + 1] = last'.value
       /\ (/\ last.op = "set" /\ last.index = 24 /\ last.ok
           /\ last'.op = "get" /\ last'.index = 24)
             => last'.ok /\ last'.ret = last.value]_vars

\* the largest value was written through the port at double word 1 and
\* read back
C20_Witness ==
    /\ last.op = "get" /\ last.index = 24 /\ last.ok
    /\ last.ret = I64_MAX /\ regs[24] = I64_MAX /\ regs[26] = 1
    /\ mem[2] = Word \div 2 - 1 /\ mem[3] = Word - 1

=============================================================================
